---------------------------- MODULE Spec2Model ----------------------------
(***************************************************************************)
(* Model of the TPC-H Q1 grouping aggregator of goose-db                   *)
(* (src/src/aggregator.rs): the perfect hash hash_key/unhash_key, the      *)
(* 4-bank x 6-slot accumulator array, aggregate_batch and get_results.     *)
(*                                                                         *)
(* Arithmetic.  The code sums f64 values.  The model is exact fixed-point  *)
(* integer arithmetic: quantity and price are whole units, discount and    *)
(* tax are hundredths, so that                                             *)
(*     1.0 - d          is   Hundred - d       (hundredths)                *)
(*     p * (1.0 - d)    is   p * (Hundred - d) (hundredths)                *)
(*     ... * (1.0 + t)  is   ... * (Hundred+t) (ten-thousandths)           *)
(* An average sum / count is the reduced fraction <<num, den>>.            *)
(***************************************************************************)
EXTENDS Integers, Sequences, FiniteSets, TLC

(***************************************************************************)
(* Bounds of the model.                                                    *)
(***************************************************************************)
\* Total number of mask entries handed to aggregate_batch over one run.
MaxRows == 5
\* Largest slot index handed to unhash_key.
MaxIndex == 7

(***************************************************************************)
(* Program constants.                                                      *)
(***************************************************************************)
\* Largest value of a u8 (flag and status bytes).
ByteMax == 255
\* Number of accumulator banks:  states: [[AggState; 6]; 4].
NumBanks == 4
\* Number of group slots per bank.
NumGroups == 6
\* The fixed-point image of the literal 1.0 in  (1.0 - d)  and  (1.0 + t).
Hundred == 100

\* ASCII codes of the byte literals of the source.
ChA == 65
ChN == 78
ChR == 82
ChF == 70
ChO == 79
ChQuestion == 63

Bytes == 0..ByteMax
ValidFlags == {ChA, ChN, ChR}
ValidStatuses == {ChF, ChO}
ValidKeys == {<<f, s>> : f \in ValidFlags, s \in ValidStatuses}

(***************************************************************************)
(* hash_key and unhash_key.                                                *)
(***************************************************************************)
\* Mutant of hash_key: the indices of 'N' and 'R' exchanged.
hash_key_swapped(flag, status) ==
    LET flag_idx == CASE flag = ChA -> 0
                      [] flag = ChN -> 2
                      [] flag = ChR -> 1
                      [] OTHER -> 0
        status_idx == IF status = ChO THEN 1 ELSE 0
    IN  flag_idx * 2 + status_idx

\* Mutant of hash_key: the fallback arm of the match yields 3, not 0.
hash_key_fallback3(flag, status) ==
    LET flag_idx == CASE flag = ChA -> 0
                      [] flag = ChN -> 1
                      [] flag = ChR -> 2
                      [] OTHER -> 3
        status_idx == IF status = ChO THEN 1 ELSE 0
    IN  flag_idx * 2 + status_idx

hash_key(flag, status) ==
    LET flag_idx == CASE flag = ChA -> 0
                      [] flag = ChN -> 1
                      [] flag = ChR -> 2
                      [] OTHER -> 0
        status_idx == IF status = ChO THEN 1 ELSE 0
    IN  flag_idx * 2 + status_idx

\* Mutant of unhash_key: every index is reported with flag 'A'.
unhash_key_allA(idx) ==
    <<ChA, IF idx % 2 = 1 THEN ChO ELSE ChF>>

unhash_key(idx) ==
    LET flag == CASE idx \div 2 = 0 -> ChA
                  [] idx \div 2 = 1 -> ChN
                  [] idx \div 2 = 2 -> ChR
                  [] OTHER -> ChQuestion
        status == IF idx % 2 = 1 THEN ChO ELSE ChF
    IN  <<flag, status>>

(***************************************************************************)
(* AggState: the accumulator of one group in one bank.                     *)
(***************************************************************************)
ZeroState ==
    [sum_disc_price |-> 0, sum_charge |-> 0, count |-> 0,
     sum_qty |-> 0, sum_base_price |-> 0, sum_discount |-> 0]

\* Mutant of merge: sum_discount of the other state is not added.
merge_no_discount(self, other) ==
    [sum_disc_price |-> self.sum_disc_price + other.sum_disc_price,
     sum_charge     |-> self.sum_charge + other.sum_charge,
     count          |-> self.count + other.count,
     sum_qty        |-> self.sum_qty + other.sum_qty,
     sum_base_price |-> self.sum_base_price + other.sum_base_price,
     sum_discount   |-> self.sum_discount]

\* AggState::merge: the value of *self after self.merge(&other).
merge(self, other) ==
    [sum_disc_price |-> self.sum_disc_price + other.sum_disc_price,
     sum_charge     |-> self.sum_charge + other.sum_charge,
     count          |-> self.count + other.count,
     sum_qty        |-> self.sum_qty + other.sum_qty,
     sum_base_price |-> self.sum_base_price + other.sum_base_price,
     sum_discount   |-> self.sum_discount + other.sum_discount]

\* Mutant of is_empty: the comparison is off by one.
is_empty_off_by_one(state) == state.count <= 1

is_empty(state) == state.count = 0

RECURSIVE Gcd(_, _)
Gcd(a, b) == IF b = 0 THEN a ELSE Gcd(b, a % b)

\* The quotient sum / count as a reduced fraction (sum >= 0, count > 0).
Quotient(sum, count) ==
    LET g == Gcd(sum, count) IN <<sum \div g, count \div g>>

avg_qty(state) ==
    IF state.count = 0 THEN <<0, 1>> ELSE Quotient(state.sum_qty, state.count)

avg_price(state) ==
    IF state.count = 0 THEN <<0, 1>>
    ELSE Quotient(state.sum_base_price, state.count)

avg_disc_of_disc_price(state) ==
    IF state.count = 0 THEN <<0, 1>>
    ELSE Quotient(state.sum_disc_price, state.count)

avg_disc(state) ==
    IF state.count = 0 THEN <<0, 1>>
    ELSE Quotient(state.sum_discount, state.count)

(***************************************************************************)
(* Aggregator: states[bank][slot], and Aggregator::new.                    *)
(***************************************************************************)
Banks == 0..(NumBanks - 1)
Groups == 0..(NumGroups - 1)

new == [b \in Banks |-> [g \in Groups |-> ZeroState]]

(***************************************************************************)
(* The columns of a batch.  A StringArray is the sequence of its values,   *)
(* each a sequence of bytes; its value buffer is their concatenation.      *)
(* A BooleanArray / Float64Array is the sequence of its values.  Rust      *)
(* indices are 0-based: element i of an array is arr[i + 1] here.          *)
(***************************************************************************)
RECURSIVE value_data(_)
value_data(strings) ==
    IF strings = <<>> THEN <<>>
    ELSE Head(strings) \o value_data(Tail(strings))

\* let use_fast_path = (flag_values.len() >= len) && (status_values.len() >= len)
use_fast_path_of(len, flag_values, status_values) ==
    (Len(flag_values) >= len) /\ (Len(status_values) >= len)

\* What the loops of aggregate_batch read: the seven arrays, the two value
\* buffers and the path chosen (lines 129-165).
locals(batch) ==
    LET flag_values == value_data(batch.returnflag)
        status_values == value_data(batch.linestatus)
    IN  [mask |-> batch.mask,
         returnflag |-> batch.returnflag, linestatus |-> batch.linestatus,
         flag_values |-> flag_values, status_values |-> status_values,
         use_fast_path |->
             use_fast_path_of(Len(batch.mask), flag_values, status_values),
         q_vals |-> batch.quantity, p_vals |-> batch.price,
         d_vals |-> batch.discount, t_vals |-> batch.tax]

\* The flag byte f and status byte s read for row i.
flag_byte(c, i) ==
    IF c.use_fast_path THEN c.flag_values[i + 1] ELSE c.returnflag[i + 1][1]

status_byte(c, i) ==
    IF c.use_fast_path THEN c.status_values[i + 1] ELSE c.linestatus[i + 1][1]

\* Mutant of add_row: the count is not incremented.
add_row_no_count(state, q, p, d, t) ==
    LET disc_price == p * (Hundred - d)
        charge == disc_price * (Hundred + t)
    IN  [sum_qty        |-> state.sum_qty + q,
         sum_base_price |-> state.sum_base_price + p,
         sum_disc_price |-> state.sum_disc_price + disc_price,
         sum_charge     |-> state.sum_charge + charge,
         sum_discount   |-> state.sum_discount + d,
         count          |-> state.count]

\* The six updates of one selected row in an unrolled lane (lines 187-194).
add_row(state, q, p, d, t) ==
    LET disc_price == p * (Hundred - d)
        charge == disc_price * (Hundred + t)
    IN  [sum_qty        |-> state.sum_qty + q,
         sum_base_price |-> state.sum_base_price + p,
         sum_disc_price |-> state.sum_disc_price + disc_price,
         sum_charge     |-> state.sum_charge + charge,
         sum_discount   |-> state.sum_discount + d,
         count          |-> state.count + 1]

\* The six updates of one selected row in the remainder loop (lines
\* 285-290): the derived values are written inline.
add_row_remainder(state, q, p, d, t) ==
    [sum_qty        |-> state.sum_qty + q,
     sum_base_price |-> state.sum_base_price + p,
     sum_disc_price |-> state.sum_disc_price + p * (Hundred - d),
     sum_charge     |-> state.sum_charge + p * (Hundred - d) * (Hundred + t),
     sum_discount   |-> state.sum_discount + d,
     count          |-> state.count + 1]

\* Mutant of unroll: the mask bit is not consulted.
unroll_ignores_mask(st, c, i, bank) ==
    LET idx == hash_key(flag_byte(c, i), status_byte(c, i))
    IN  [st EXCEPT ![bank][idx] =
            add_row(@, c.q_vals[i + 1], c.p_vals[i + 1],
                    c.d_vals[i + 1], c.t_vals[i + 1])]

\* Mutant of unroll: every lane writes bank 0.
unroll_bank0(st, c, i, bank) ==
    IF c.mask[i + 1]
    THEN LET idx == hash_key(flag_byte(c, i), status_byte(c, i))
         IN  [st EXCEPT ![0][idx] =
                 add_row(@, c.q_vals[i + 1], c.p_vals[i + 1],
                         c.d_vals[i + 1], c.t_vals[i + 1])]
    ELSE st

\* One unrolled lane: row i into bank `bank` ("Unroll 0" .. "Unroll 3",
\* four copies of the same text with banks 0, 1, 2, 3).
unroll(st, c, i, bank) ==
    IF c.mask[i + 1]
    THEN LET idx == hash_key(flag_byte(c, i), status_byte(c, i))
         IN  [st EXCEPT ![bank][idx] =
                 add_row(@, c.q_vals[i + 1], c.p_vals[i + 1],
                         c.d_vals[i + 1], c.t_vals[i + 1])]
    ELSE st

\* The body of  for chunk_i in 0..chunks.
chunk_body(st, c, chunk_i) ==
    LET base == chunk_i * 4
        s0 == unroll(st, c, base, 0)
        s1 == unroll(s0, c, base + 1, 1)
        s2 == unroll(s1, c, base + 2, 2)
    IN  unroll(s2, c, base + 3, 3)

RECURSIVE chunk_loop(_, _, _, _)
chunk_loop(st, c, chunk_i, chunks) ==
    IF chunk_i >= chunks THEN st
    ELSE chunk_loop(chunk_body(st, c, chunk_i), c, chunk_i + 1, chunks)

\* The body of  for i in (chunks * 4)..len : accumulator 0.
remainder_body(st, c, i) ==
    IF c.mask[i + 1]
    THEN LET idx == hash_key(flag_byte(c, i), status_byte(c, i))
         IN  [st EXCEPT ![0][idx] =
                 add_row_remainder(@, c.q_vals[i + 1], c.p_vals[i + 1],
                                   c.d_vals[i + 1], c.t_vals[i + 1])]
    ELSE st

RECURSIVE remainder_loop(_, _, _, _)
remainder_loop(st, c, i, len) ==
    IF i >= len THEN st
    ELSE remainder_loop(remainder_body(st, c, i), c, i + 1, len)

aggregate_batch_without_remainder(st, batch) ==
    LET len == Len(batch.mask)
    IN  IF len = 0 THEN st
        ELSE chunk_loop(st, locals(batch), 0, len \div 4)

\* Aggregator::aggregate_batch: self.states after the call.
aggregate_batch(st, batch) ==
    LET len == Len(batch.mask)
    IN  IF len = 0 THEN st
        ELSE LET c == locals(batch)
                 chunks == len \div 4
             IN  remainder_loop(chunk_loop(st, c, 0, chunks),
                                c, chunks * 4, len)

\* Aggregator::aggregate_batch: the value returned.  Both returns are Ok(()).
aggregate_batch_returns(batch) ==
    IF Len(batch.mask) = 0 THEN "Ok" ELSE "Ok"

(***************************************************************************)
(* Aggregator::get_results.                                                *)
(***************************************************************************)
\* Mutant of merge_banks: the loop stops one bank early (for i in 1..3).
RECURSIVE merge_banks_short(_, _, _)
merge_banks_short(final_states, st, i) ==
    IF i >= NumBanks - 1 THEN final_states
    ELSE merge_banks_short(
             [j \in Groups |-> merge(final_states[j], st[i][j])], st, i + 1)

\* for i in 1..4 { for j in 0..6 { final_states[j].merge(&self.states[i][j]) } }
RECURSIVE merge_banks(_, _, _)
merge_banks(final_states, st, i) ==
    IF i >= NumBanks THEN final_states
    ELSE merge_banks(
             [j \in Groups |-> merge(final_states[j], st[i][j])], st, i + 1)

\* let mut final_states = self.states[0].clone(); then the merge loop.
merged_states(st) == merge_banks(st[0], st, 1)

\* The QueryResult built for slot idx (the closure of .map).
query_result(idx, state) ==
    LET key == unhash_key(idx)
    IN  [returnflag |-> key[1], linestatus |-> key[2],
         sum_qty |-> state.sum_qty, sum_base_price |-> state.sum_base_price,
         sum_disc_price |-> state.sum_disc_price,
         sum_charge |-> state.sum_charge,
         avg_qty |-> avg_qty(state), avg_price |-> avg_price(state),
         avg_disc |-> avg_disc(state), count |-> state.count]

\* .iter().enumerate().filter(!is_empty).map(..).collect(), from slot idx on.
RECURSIVE collect(_, _)
collect(final_states, idx) ==
    IF idx >= NumGroups THEN <<>>
    ELSE IF is_empty(final_states[idx]) THEN collect(final_states, idx + 1)
    ELSE <<query_result(idx, final_states[idx])>>
         \o collect(final_states, idx + 1)

\* Mutant of key_cmp: the operands are exchanged (descending order).
key_cmp_reversed(a, b) ==
    IF b.returnflag < a.returnflag THEN "Less"
    ELSE IF b.returnflag > a.returnflag THEN "Greater"
    ELSE IF b.linestatus < a.linestatus THEN "Less"
    ELSE IF b.linestatus > a.linestatus THEN "Greater"
    ELSE "Equal"

\* a.returnflag.cmp(&b.returnflag).then(a.linestatus.cmp(&b.linestatus))
key_cmp(a, b) ==
    IF a.returnflag < b.returnflag THEN "Less"
    ELSE IF a.returnflag > b.returnflag THEN "Greater"
    ELSE IF a.linestatus < b.linestatus THEN "Less"
    ELSE IF a.linestatus > b.linestatus THEN "Greater"
    ELSE "Equal"

\* x put into the sorted sequence after every element not greater than it.
RECURSIVE insert_sorted(_, _)
insert_sorted(sorted, x) ==
    IF sorted = <<>> THEN <<x>>
    ELSE IF key_cmp(x, Head(sorted)) = "Less" THEN <<x>> \o sorted
    ELSE <<Head(sorted)>> \o insert_sorted(Tail(sorted), x)

\* results.sort_by(..): a stable sort, here by insertion from the left.
RECURSIVE sort_by(_, _)
sort_by(sorted, rest) ==
    IF rest = <<>> THEN sorted
    ELSE sort_by(insert_sorted(sorted, Head(rest)), Tail(rest))

\* Aggregator::get_results: the Vec<QueryResult> returned.
get_results(st) == sort_by(<<>>, collect(merged_states(st), 0))

\* Mutant of states_after_get_results: the banks are drained by the call.
states_after_get_results_drained(st) == new

\* Aggregator::get_results: self.states after the call.  The receiver is
\* &self and final_states is a clone: nothing is written back.
states_after_get_results(st) == st

(***************************************************************************)
(* The state.                                                              *)
(*   states   Aggregator.states, the 4 x 6 accumulators                    *)
(*   pending  the batch the caller holds for the next aggregate_batch      *)
(*            call: <<>> or <<batch>>                                      *)
(*   ret      what the last aggregate_batch call returned                  *)
(*   results  the Vecs returned by the get_results calls made since the    *)
(*            last batch was taken, oldest first (the last two of them)    *)
(*   used     mask entries handed out so far (bounded by MaxRows)          *)
(*   lastCall length and number of selected rows of the last batch         *)
(*            aggregated, and whether its arrays had unequal lengths       *)
(*   serial   reference: one single bank into which every selected row is  *)
(*            added serially                                               *)
(*   truth    reference: per (flag, status) value of the selected rows,    *)
(*            their number and the sums of the measures                    *)
(*   hk       the evaluation of hash_key / unhash_key on one input         *)
(*   drv      execute_tpch_q1: where its loop over the reader stands and    *)
(*            what its iterations met so far                               *)
(*   ex       the evaluation of the derived expressions on one input       *)
(*   flt      the evaluation of the date filter on one date column         *)
(*   sv       the bytes read from one string column on both paths          *)
(***************************************************************************)
VARIABLES states, pending, ret, results, used, lastCall, serial, truth, hk,
          drv, ex, flt, sv

vars == <<states, pending, ret, results, used, lastCall, serial, truth, hk,
          drv, ex, flt, sv>>

sideVars == <<drv, ex, flt, sv>>

aggVars == <<states, pending, ret, results, used, lastCall, serial, truth>>

(***************************************************************************)
(* The rows the batch source draws from: a selection bit, two one-byte     *)
(* strings and four measures.  Byte 88, 'X', is a flag outside {A, N, R}.   *)
(***************************************************************************)
RowKinds ==
    { [sel |-> TRUE,  flag |-> <<ChA>>, status |-> <<ChF>>,
       q |-> 1, p |-> 10, d |-> 0, t |-> 0],
      [sel |-> TRUE,  flag |-> <<ChR>>, status |-> <<ChO>>,
       q |-> 2, p |-> 100, d |-> 10, t |-> 5],
      [sel |-> TRUE,  flag |-> <<ChN>>, status |-> <<ChF>>,
       q |-> 3, p |-> 20, d |-> 5, t |-> 2],
      [sel |-> FALSE, flag |-> <<ChA>>, status |-> <<ChF>>,
       q |-> 7, p |-> 50, d |-> 20, t |-> 8],
      [sel |-> TRUE,  flag |-> <<88>>, status |-> <<ChO>>,
       q |-> 4, p |-> 30, d |-> 0, t |-> 0] }

\* The batch whose mask is `mask` and whose six columns hold `rows`.
Batch(mask, rows) ==
    [mask       |-> mask,
     returnflag |-> [i \in 1..Len(rows) |-> rows[i].flag],
     linestatus |-> [i \in 1..Len(rows) |-> rows[i].status],
     quantity   |-> [i \in 1..Len(rows) |-> rows[i].q],
     price      |-> [i \in 1..Len(rows) |-> rows[i].p],
     discount   |-> [i \in 1..Len(rows) |-> rows[i].d],
     tax        |-> [i \in 1..Len(rows) |-> rows[i].t]]

SelBits(rows) == [i \in 1..Len(rows) |-> rows[i].sel]

\* Length of the shortest of the six columns.
ColLen(batch) == Len(batch.quantity)

Ragged(batch) == Len(batch.mask) # ColLen(batch)

NumSelected(batch) ==
    Cardinality({i \in 1..Len(batch.mask) : batch.mask[i]})

\* The arrays as the loops of aggregate_batch read them.  With every array
\* at least as long as the mask each read is in bounds.  A column shorter
\* than the mask is read past its end by get_unchecked: the read is
\* undefined behaviour, modelled as yielding the values of any row.
Readable(batch) ==
    IF ColLen(batch) >= Len(batch.mask) THEN {batch}
    ELSE LET n == ColLen(batch)
             m == Len(batch.mask)
         IN  { [mask       |-> batch.mask,
                returnflag |-> batch.returnflag \o [i \in 1..(m - n) |-> pad[i].flag],
                linestatus |-> batch.linestatus \o [i \in 1..(m - n) |-> pad[i].status],
                quantity   |-> batch.quantity \o [i \in 1..(m - n) |-> pad[i].q],
                price      |-> batch.price \o [i \in 1..(m - n) |-> pad[i].p],
                discount   |-> batch.discount \o [i \in 1..(m - n) |-> pad[i].d],
                tax        |-> batch.tax \o [i \in 1..(m - n) |-> pad[i].t]]
               : pad \in [1..(m - n) -> RowKinds] }

(***************************************************************************)
(* The two references.                                                     *)
(***************************************************************************)
KeyDomain == ValidKeys \cup {<<r.flag[1], r.status[1]>> : r \in RowKinds}

ZeroTotals ==
    [count |-> 0, sum_qty |-> 0, sum_base_price |-> 0,
     sum_disc_price |-> 0, sum_charge |-> 0, sum_discount |-> 0]

\* One bank; the selected rows of the batch added one after the other.
RECURSIVE SerialAdd(_, _, _)
SerialAdd(bank, batch, i) ==
    IF i > Len(batch.mask) THEN bank
    ELSE IF ~batch.mask[i] THEN SerialAdd(bank, batch, i + 1)
    ELSE LET g == hash_key(batch.returnflag[i][1], batch.linestatus[i][1])
             p == batch.price[i]
             d == batch.discount[i]
             t == batch.tax[i]
             new_g ==
                 [sum_qty        |-> bank[g].sum_qty + batch.quantity[i],
                  sum_base_price |-> bank[g].sum_base_price + p,
                  sum_disc_price |-> bank[g].sum_disc_price + p * (Hundred - d),
                  sum_charge     |-> bank[g].sum_charge
                                       + p * (Hundred - d) * (Hundred + t),
                  sum_discount   |-> bank[g].sum_discount + d,
                  count          |-> bank[g].count + 1]
         IN  SerialAdd([bank EXCEPT ![g] = new_g], batch, i + 1)

\* Per key value: the selected rows carrying it.
SelectedWithKey(batch, k) ==
    {i \in 1..Len(batch.mask) :
        batch.mask[i] /\ <<batch.returnflag[i][1], batch.linestatus[i][1]>> = k}

RECURSIVE SumOver(_, _)
SumOver(f, S) ==
    IF S = {} THEN 0
    ELSE LET i == CHOOSE x \in S : TRUE IN f[i] + SumOver(f, S \ {i})

TruthAdd(tr, batch) ==
    [k \in KeyDomain |->
        LET S == SelectedWithKey(batch, k)
            n == Len(batch.mask)
            dp == [i \in 1..n |-> batch.price[i] * (Hundred - batch.discount[i])]
            ch == [i \in 1..n |-> dp[i] * (Hundred + batch.tax[i])]
        IN  [count          |-> tr[k].count + Cardinality(S),
             sum_qty        |-> tr[k].sum_qty + SumOver(batch.quantity, S),
             sum_base_price |-> tr[k].sum_base_price + SumOver(batch.price, S),
             sum_disc_price |-> tr[k].sum_disc_price + SumOver(dp, S),
             sum_charge     |-> tr[k].sum_charge + SumOver(ch, S),
             sum_discount   |-> tr[k].sum_discount + SumOver(batch.discount, S)]]

(***************************************************************************)
(* The aggregator driven by an arbitrary caller.                           *)
(***************************************************************************)
NoCall == [len |-> 0, selected |-> 0, ragged |-> FALSE, made |-> FALSE]

HkIdle == [stage |-> "idle", flag |-> 0, status |-> 0, idx |-> 0,
           out_flag |-> 0, out_status |-> 0, out_idx |-> 0]

AggInit ==
    /\ states = new
    /\ pending = <<>>
    /\ ret = "none"
    /\ results = <<>>
    /\ used = 0
    /\ lastCall = NoCall
    /\ serial = [g \in Groups |-> ZeroState]
    /\ truth = [k \in KeyDomain |-> ZeroTotals]

\* execute_tpch_q1 not running.
DrvOff == [pc |-> "off", last |-> "none", sawEmpty |-> FALSE, calls |-> 0]

ExIdle == [stage |-> "idle", price |-> 0, discount |-> 0, tax |-> 0,
           lanes |-> <<>>, remainder |-> <<>>, batch |-> <<>>]

FltIdle == [stage |-> "idle", column |-> <<>>, mask |-> <<>>,
            kept |-> <<>>, count |-> 0]

SvIdle == [stage |-> "idle", strings |-> <<>>, lead |-> <<>>,
           use_fast_path |-> FALSE, fast |-> <<>>, slow |-> <<>>]

SideIdle == drv = DrvOff /\ ex = ExIdle /\ flt = FltIdle /\ sv = SvIdle

Init == AggInit /\ hk = HkIdle /\ SideIdle

\* The batch source hands the caller a batch of n rows, n >= 0; all seven
\* arrays have length n.
YieldBatch ==
    /\ pending = <<>>
    /\ \E n \in 0..(MaxRows - used) :
         \E rows \in [1..n -> RowKinds] :
            /\ pending' = <<Batch(SelBits(rows), rows)>>
            /\ used' = used + n
    /\ results' = <<>>
    /\ UNCHANGED <<states, ret, lastCall, serial, truth, hk, sideVars>>

\* aggregate_batch(&mut self, mask, returnflag, ..., tax) on the batch held.
AggregateBatch ==
    /\ pending # <<>>
    /\ \E b \in Readable(pending[1]) :
         /\ states' = aggregate_batch(states, b)
         /\ serial' = SerialAdd(serial, b, 1)
         /\ truth' = TruthAdd(truth, b)
    /\ ret' = aggregate_batch_returns(pending[1])
    /\ lastCall' = [len |-> Len(pending[1].mask),
                    selected |-> NumSelected(pending[1]),
                    ragged |-> Ragged(pending[1]), made |-> TRUE]
    /\ pending' = <<>>
    /\ UNCHANGED <<results, used, hk, sideVars>>

\* get_results(&self).
GetResults ==
    /\ pending = <<>>
    /\ results' = IF Len(results) < 2
                  THEN Append(results, get_results(states))
                  ELSE <<results[2], get_results(states)>>
    /\ states' = states_after_get_results(states)
    /\ UNCHANGED <<pending, ret, used, lastCall, serial, truth, hk, sideVars>>

Next == YieldBatch \/ AggregateBatch \/ GetResults

Spec == Init /\ [][Next]_vars

(***************************************************************************)
(* The same caller with batches that break the precondition of             *)
(* aggregate_batch: the mask is one entry shorter, or one entry longer,    *)
(* than the six columns.                                                   *)
(***************************************************************************)
YieldRagged ==
    /\ pending = <<>>
    /\ \E n \in 1..(MaxRows - used) :
         \E rows \in [1..n -> RowKinds] :
            /\ \/ pending' = <<Batch(SubSeq(SelBits(rows), 1, n - 1), rows)>>
               \/ pending' = <<Batch(SelBits(rows), SubSeq(rows, 1, n - 1))>>
            /\ used' = used + n
    /\ results' = <<>>
    /\ UNCHANGED <<states, ret, lastCall, serial, truth, hk, sideVars>>

NextShape == YieldRagged \/ AggregateBatch \/ GetResults

SpecShape == Init /\ [][NextShape]_vars

(***************************************************************************)
(* hash_key and unhash_key evaluated on one input: a (flag, status) byte   *)
(* pair that is hashed and then unhashed, or a slot index that is          *)
(* unhashed and then hashed.                                               *)
(***************************************************************************)
HashInit ==
    /\ AggInit
    /\ SideIdle
    /\ \/ \E f \in Bytes, s \in Bytes :
            hk = [HkIdle EXCEPT !.stage = "key", !.flag = f, !.status = s]
       \/ \E i \in 0..MaxIndex :
            hk = [HkIdle EXCEPT !.stage = "index", !.idx = i]

HashKey ==
    /\ hk.stage = "key"
    /\ hk' = [hk EXCEPT !.stage = "hashed",
                        !.out_idx = hash_key(hk.flag, hk.status)]
    /\ UNCHANGED <<aggVars, sideVars>>

UnhashBack ==
    /\ hk.stage = "hashed"
    /\ hk' = [hk EXCEPT !.stage = "key_round",
                        !.out_flag = unhash_key(hk.out_idx)[1],
                        !.out_status = unhash_key(hk.out_idx)[2]]
    /\ UNCHANGED <<aggVars, sideVars>>

UnhashKey ==
    /\ hk.stage = "index"
    /\ hk' = [hk EXCEPT !.stage = "unhashed",
                        !.out_flag = unhash_key(hk.idx)[1],
                        !.out_status = unhash_key(hk.idx)[2]]
    /\ UNCHANGED <<aggVars, sideVars>>

HashBack ==
    /\ hk.stage = "unhashed"
    /\ hk' = [hk EXCEPT !.stage = "index_round",
                        !.out_idx = hash_key(hk.out_flag, hk.out_status)]
    /\ UNCHANGED <<aggVars, sideVars>>

HashNext == HashKey \/ UnhashBack \/ UnhashKey \/ HashBack

SpecHash == HashInit /\ [][HashNext]_vars

(***************************************************************************)
(* The date filter: l_shipdate <= FILTER_DATE_DAYS.  A date column is a    *)
(* sequence of day numbers; a record batch is a sequence of rows.          *)
(***************************************************************************)
FILTER_DATE_DAYS == 10471

\* The comparison kernel on a non-null column and a scalar.
lt_strict(column, scalar) ==
    [i \in 1..Len(column) |-> column[i] < scalar]

lt_eq(column, scalar) ==
    [i \in 1..Len(column) |-> column[i] <= scalar]

true_count(mask) == Cardinality({i \in 1..Len(mask) : mask[i]})

\* The rows of the batch whose mask entry is true, in their order.
RECURSIVE filter_record_batch(_, _)
filter_record_batch(batch, filter_mask) ==
    IF batch = <<>> THEN <<>>
    ELSE IF Head(filter_mask)
         THEN <<Head(batch)>> \o filter_record_batch(Tail(batch), Tail(filter_mask))
         ELSE filter_record_batch(Tail(batch), Tail(filter_mask))

shipdate_array(batch) == [i \in 1..Len(batch) |-> batch[i].shipdate]

apply_date_filter(batch) ==
    LET filter_mask == lt_eq(shipdate_array(batch), FILTER_DATE_DAYS)
    IN  filter_record_batch(batch, filter_mask)

count_matching_rows(batch) ==
    LET filter_mask == lt_eq(shipdate_array(batch), FILTER_DATE_DAYS)
    IN  true_count(filter_mask)

\* The mask execute_tpch_q1 asks the filter for.
create_date_filter_mask(batch) ==
    lt_eq(shipdate_array(batch), FILTER_DATE_DAYS)

(***************************************************************************)
(* execute_tpch_q1: a fresh aggregator, one pass of the loop body per item *)
(* the reader yields, get_results at the end of the sequence.  An item is  *)
(* an error or a batch; the rows of a batch are RowKinds rows that carry   *)
(* a ship date, on the threshold for the rows to select and one day after  *)
(* it for the others.                                                      *)
(***************************************************************************)
WithShipDate(rows) ==
    [i \in 1..Len(rows) |->
        [shipdate |-> IF rows[i].sel THEN FILTER_DATE_DAYS
                      ELSE FILTER_DATE_DAYS + 1,
         row |-> rows[i]]]

OkBatch(rows) == [err |-> FALSE, batch |-> WithShipDate(rows)]

ErrItem == [err |-> TRUE, batch |-> <<>>]

num_rows(batch) == Len(batch)

\* What one pass of the loop body comes to.
loop_body_fails_on_empty(batch_result) ==
    IF batch_result.err THEN "return_err"
    ELSE IF num_rows(batch_result.batch) = 0 THEN "return_err"
    ELSE IF true_count(create_date_filter_mask(batch_result.batch)) = 0
         THEN "continue"
    ELSE "aggregate"

loop_body(batch_result) ==
    IF batch_result.err THEN "return_err"
    ELSE IF num_rows(batch_result.batch) = 0 THEN "continue"
    ELSE IF true_count(create_date_filter_mask(batch_result.batch)) = 0
         THEN "continue"
    ELSE "aggregate"

\* The arguments of the aggregate_batch call: the mask and the six columns
\* of the unfiltered batch.
call_arguments(batch) ==
    Batch(create_date_filter_mask(batch),
          [i \in 1..Len(batch) |-> batch[i].row])

DriverInit ==
    /\ AggInit
    /\ hk = HkIdle /\ ex = ExIdle /\ flt = FltIdle /\ sv = SvIdle
    /\ drv \in {DrvOff, [DrvOff EXCEPT !.pc = "loop"]}

\* One pass of the loop body on the item the reader yields.
Iteration(batch_result, kind) ==
    LET outcome == loop_body(batch_result)
        b == call_arguments(batch_result.batch)
    IN  /\ drv.pc = "loop"
        /\ states' = IF outcome = "aggregate" THEN aggregate_batch(states, b)
                     ELSE states
        /\ ret' = IF outcome = "aggregate" THEN aggregate_batch_returns(b)
                  ELSE ret
        /\ serial' = SerialAdd(serial, b, 1)
        /\ truth' = TruthAdd(truth, b)
        /\ used' = used + num_rows(batch_result.batch)
        /\ drv' = [pc |-> IF outcome = "return_err" THEN "failed" ELSE "loop",
                   last |-> IF outcome = "aggregate" THEN "aggregated"
                            ELSE kind,
                   sawEmpty |-> drv.sawEmpty \/ kind = "empty",
                   calls |-> IF outcome = "aggregate" THEN drv.calls + 1
                             ELSE drv.calls]
        /\ UNCHANGED <<pending, results, lastCall, hk, ex, flt, sv>>

ReadEmptyBatch ==
    \E n \in {0} :
       \E rows \in [1..n -> RowKinds] : Iteration(OkBatch(rows), "empty")

ReadFilteredBatch ==
    \E n \in 1..(MaxRows - used) :
       \E rows \in [1..n -> {r \in RowKinds : ~r.sel}] :
          Iteration(OkBatch(rows), "filtered")

ReadBatch ==
    \E n \in 1..(MaxRows - used) :
       \E rows \in [1..n -> RowKinds] :
          /\ \E i \in 1..n : rows[i].sel
          /\ Iteration(OkBatch(rows), "aggregated")

ReadError ==
    /\ drv.pc = "loop"
    /\ Iteration(ErrItem, "error")

\* The reader is exhausted: the results are taken and returned.
EndOfSequence ==
    /\ drv.pc = "loop"
    /\ results' = <<get_results(states)>>
    /\ states' = states_after_get_results(states)
    /\ drv' = [drv EXCEPT !.pc = "done", !.last = "end"]
    /\ UNCHANGED <<pending, ret, used, lastCall, serial, truth, hk, ex, flt, sv>>

\* The aggregator used by a caller other than execute_tpch_q1.
DirectCall == drv.pc = "off" /\ Next

DriverNext ==
    \/ ReadEmptyBatch
    \/ ReadFilteredBatch
    \/ ReadBatch
    \/ ReadError
    \/ EndOfSequence
    \/ DirectCall

SpecDriver == DriverInit /\ [][DriverNext]_vars

(***************************************************************************)
(* evaluate_expressions: the derived columns of a whole batch, computed    *)
(* with the elementwise kernels.  1.0 is Hundred, as in the aggregator.    *)
(***************************************************************************)
numeric_sub(a, b) == [i \in 1..Len(a) |-> a[i] - b[i]]

numeric_add(a, b) == [i \in 1..Len(a) |-> a[i] + b[i]]

numeric_mul(a, b) == [i \in 1..Len(a) |-> a[i] * b[i]]

evaluate_expressions_charge_of_price(price, discount, tax) ==
    LET ones == [i \in 1..Len(price) |-> Hundred]
        one_minus_discount == numeric_sub(ones, discount)
        disc_price == numeric_mul(price, one_minus_discount)
        one_plus_tax == numeric_add(ones, tax)
        charge == numeric_mul(price, one_plus_tax)
    IN  [disc_price |-> disc_price, charge |-> charge]

evaluate_expressions(price, discount, tax) ==
    LET len == Len(price)
        ones == [i \in 1..len |-> Hundred]
        one_minus_discount == numeric_sub(ones, discount)
        disc_price == numeric_mul(price, one_minus_discount)
        one_plus_tax == numeric_add(ones, tax)
        charge == numeric_mul(disc_price, one_plus_tax)
    IN  [disc_price |-> disc_price, charge |-> charge]

(***************************************************************************)
(* The derived values of one (price, discount, tax) as each place that     *)
(* computes them gives them: the four unrolled lanes (a batch of four      *)
(* selected rows on a fresh aggregator), the remainder loop (a batch of    *)
(* one row) and evaluate_expressions (a batch of two rows, the second      *)
(* being price 100, discount 0.10, tax 0.05).                              *)
(***************************************************************************)
MaxPrice == 100

MaxDiscount == 10

MaxTax == 8

ExprRow(p, d, t) ==
    [sel |-> TRUE, flag |-> <<ChA>>, status |-> <<ChF>>,
     q |-> 1, p |-> p, d |-> d, t |-> t]

ExprBatch(n, p, d, t) ==
    LET rows == [i \in 1..n |-> ExprRow(p, d, t)]
    IN  Batch(SelBits(rows), rows)

\* What a slot of a fresh aggregator holds of the derived values of one row.
Derived(state) == <<state.sum_disc_price, state.sum_charge>>

ExprInit ==
    /\ AggInit
    /\ hk = HkIdle /\ drv = DrvOff /\ flt = FltIdle /\ sv = SvIdle
    /\ \E p \in 0..MaxPrice, d \in 0..MaxDiscount, t \in 0..MaxTax :
          ex = [ExIdle EXCEPT !.stage = "input", !.price = p,
                              !.discount = d, !.tax = t]

EvalLanes ==
    /\ ex.stage = "input"
    /\ LET st == aggregate_batch(new, ExprBatch(4, ex.price, ex.discount, ex.tax))
           g == hash_key(ChA, ChF)
       IN  ex' = [ex EXCEPT !.stage = "lanes",
                            !.lanes = [k \in 1..NumBanks |-> Derived(st[k - 1][g])]]
    /\ UNCHANGED <<aggVars, hk, drv, flt, sv>>

EvalRemainder ==
    /\ ex.stage = "lanes"
    /\ LET st == aggregate_batch(new, ExprBatch(1, ex.price, ex.discount, ex.tax))
           g == hash_key(ChA, ChF)
       IN  ex' = [ex EXCEPT !.stage = "remainder",
                            !.remainder = Derived(st[0][g])]
    /\ UNCHANGED <<aggVars, hk, drv, flt, sv>>

EvalBatch ==
    /\ ex.stage = "remainder"
    /\ LET e == evaluate_expressions(<<ex.price, 100>>, <<ex.discount, 10>>,
                                     <<ex.tax, 5>>)
       IN  ex' = [ex EXCEPT !.stage = "batch",
                            !.batch = [i \in 1..2 |-> <<e.disc_price[i], e.charge[i]>>]]
    /\ UNCHANGED <<aggVars, hk, drv, flt, sv>>

ExprNext == EvalLanes \/ EvalRemainder \/ EvalBatch

SpecExpr == ExprInit /\ [][ExprNext]_vars

(***************************************************************************)
(* The date filter evaluated on one batch: its rows carry their position   *)
(* in the batch and a ship date one day before, on, or one day after the   *)
(* threshold.                                                              *)
(***************************************************************************)
MaxDates == 4

DateValues ==
    {FILTER_DATE_DAYS - 1, FILTER_DATE_DAYS, FILTER_DATE_DAYS + 1}

DatedBatch(column) ==
    [i \in 1..Len(column) |-> [id |-> i, shipdate |-> column[i]]]

FilterInit ==
    /\ AggInit
    /\ hk = HkIdle /\ drv = DrvOff /\ ex = ExIdle /\ sv = SvIdle
    /\ \E n \in 0..MaxDates :
          \E column \in [1..n -> DateValues] :
             flt = [FltIdle EXCEPT !.stage = "input", !.column = column]

ApplyDateFilter ==
    /\ flt.stage = "input"
    /\ flt' = [flt EXCEPT
                 !.stage = "filtered",
                 !.mask = lt_eq(shipdate_array(DatedBatch(flt.column)),
                                FILTER_DATE_DAYS),
                 !.kept = apply_date_filter(DatedBatch(flt.column))]
    /\ UNCHANGED <<aggVars, hk, drv, ex, sv>>

CountMatchingRows ==
    /\ flt.stage = "filtered"
    /\ flt' = [flt EXCEPT
                 !.stage = "counted",
                 !.count = count_matching_rows(DatedBatch(flt.column))]
    /\ UNCHANGED <<aggVars, hk, drv, ex, sv>>

FilterNext == ApplyDateFilter \/ CountMatchingRows

SpecFilter == FilterInit /\ [][FilterNext]_vars

(***************************************************************************)
(* The flag bytes aggregate_batch reads from one returnflag column on the  *)
(* fast and on the slow path.  The column holds one- and two-byte values;  *)
(* it may be a slice of a longer array, in which case value_data() still   *)
(* begins with the bytes of the rows before the slice (`lead`), while      *)
(* value_unchecked(i) follows the offsets.  The linestatus column holds    *)
(* "F" in every row.                                                       *)
(***************************************************************************)
MaxStrRows == 2

StringValues ==
    {<<a>> : a \in ValidFlags} \cup {<<a, b>> : a \in ValidFlags, b \in ValidFlags}

\* The locals of aggregate_batch for a returnflag column with these values
\* and these bytes ahead of them in its value buffer.
locals_of_slice(strings, lead) ==
    LET n == Len(strings)
        rows == [i \in 1..n |->
                    [sel |-> TRUE, flag |-> strings[i], status |-> <<ChF>>,
                     q |-> 1, p |-> 1, d |-> 0, t |-> 0]]
        c == locals(Batch(SelBits(rows), rows))
        flag_values == lead \o value_data(strings)
    IN  [c EXCEPT !.flag_values = flag_values,
                  !.use_fast_path =
                      use_fast_path_of(n, flag_values, c.status_values)]

StrInit ==
    /\ AggInit
    /\ hk = HkIdle /\ drv = DrvOff /\ ex = ExIdle /\ flt = FltIdle
    /\ \E n \in 1..MaxStrRows :
          \E strings \in [1..n -> StringValues] :
             \E lead \in {<<>>, <<ChN>>} :
                sv = [SvIdle EXCEPT !.stage = "input", !.strings = strings,
                                    !.lead = lead]

\* The byte read for each row, as the path chosen reads it and as the slow
\* path reads it.
ReadFlagBytes ==
    /\ sv.stage = "input"
    /\ LET c == locals_of_slice(sv.strings, sv.lead)
           n == Len(sv.strings)
       IN  sv' = [sv EXCEPT
                    !.stage = "read",
                    !.use_fast_path = c.use_fast_path,
                    !.fast = [i \in 1..n |-> flag_byte(c, i - 1)],
                    !.slow = [i \in 1..n |->
                                 flag_byte([c EXCEPT !.use_fast_path = FALSE],
                                           i - 1)]]
    /\ UNCHANGED <<aggVars, hk, drv, ex, flt>>

StrNext == ReadFlagBytes

SpecStr == StrInit /\ [][StrNext]_vars

(***************************************************************************)
(* Properties.                                                             *)
(***************************************************************************)
\* The caller holds no batch.  Every value states takes is taken in such a
\* state (a batch is handed over and consumed with states as it was), so a
\* state predicate over the aggregator is stated for these states.
Idle == pending = <<>>

\* A step of aggregate_batch: the batch held is consumed.
IsAggregateStep == pending # <<>> /\ pending' = <<>>

\* The bank that row i (0-based) of a batch of len rows is written to.
BankOf(i, len) == IF i < 4 * (len \div 4) THEN i % 4 ELSE 0

\* st with, in every slot, the values of the selected rows of the batch that
\* belong to the slot added; rows whose mask bit is false contribute nothing.
SelectedOnly(st, batch) ==
    LET n == Len(batch.mask)
        dp == [i \in 1..n |-> batch.price[i] * (Hundred - batch.discount[i])]
        ch == [i \in 1..n |-> dp[i] * (Hundred + batch.tax[i])]
    IN  [b \in Banks |-> [g \in Groups |->
            LET S == {i \in 1..n :
                        /\ batch.mask[i]
                        /\ BankOf(i - 1, n) = b
                        /\ hash_key(batch.returnflag[i][1],
                                    batch.linestatus[i][1]) = g}
            IN  [sum_qty        |-> st[b][g].sum_qty + SumOver(batch.quantity, S),
                 sum_base_price |-> st[b][g].sum_base_price + SumOver(batch.price, S),
                 sum_disc_price |-> st[b][g].sum_disc_price + SumOver(dp, S),
                 sum_charge     |-> st[b][g].sum_charge + SumOver(ch, S),
                 sum_discount   |-> st[b][g].sum_discount + SumOver(batch.discount, S),
                 count          |-> st[b][g].count + Cardinality(S)]]]

\* C1: aggregate_batch leaves the accumulators exactly as the selected rows
\* alone make them: every slot is its old value plus the values of the rows
\* with a true mask bit that belong to it, whatever the masked-out rows hold;
\* with an all-false mask no field of any slot changes.
C1_MaskedRowsHaveNoEffect ==
    [][IsAggregateStep =>
          /\ states' = SelectedOnly(states, pending[1])
          /\ (NumSelected(pending[1]) = 0 => states' = states)]_vars

\* C1 witness: a batch holding both selected and masked-out rows has been
\* aggregated.
C1_Witness ==
    /\ lastCall.made
    /\ lastCall.selected > 0
    /\ lastCall.selected < lastCall.len
    /\ lastCall.len >= 4
    /\ states # new

\* The last Vec returned by get_results, when there is one.
LastResults == results[Len(results)]

\* The totals of a result row, as an accumulator record.
RowTotals(r) ==
    [sum_qty |-> r.sum_qty, sum_base_price |-> r.sum_base_price,
     sum_disc_price |-> r.sum_disc_price, sum_charge |-> r.sum_charge,
     count |-> r.count]

FiveTotals(a) ==
    [sum_qty |-> a.sum_qty, sum_base_price |-> a.sum_base_price,
     sum_disc_price |-> a.sum_disc_price, sum_charge |-> a.sum_charge,
     count |-> a.count]

RowsWithKey(v, k) ==
    {i \in 1..Len(v) : <<v[i].returnflag, v[i].linestatus>> = k}

\* C2: the four banks merged give, group by group, the totals of the single
\* serial bank, and the rows get_results returns carry those totals.
C2_MergedBanksEqualSerial ==
    Idle =>
        LET m == merged_states(states)
            v == get_results(states)
        IN  /\ m = serial
            /\ \A i \in 1..Len(v) :
                  \E g \in Groups :
                     /\ unhash_key(g) = <<v[i].returnflag, v[i].linestatus>>
                     /\ RowTotals(v[i]) = FiveTotals(serial[g])
            /\ \A g \in Groups :
                  serial[g].count > 0 => RowsWithKey(v, unhash_key(g)) # {}

\* C2 witness: get_results has been called with one group spread over
\* several banks, the last bank among them.
C2_Witness ==
    /\ results # <<>>
    /\ \E g \in Groups :
          /\ states[0][g].count > 0
          /\ states[3][g].count > 0
          /\ states[1][g].count = 0

\* C3: for every valid key the row of get_results has the count and the sums
\* of exactly the selected rows carrying that key (and there is such a row
\* when there are such rows).
C3_ResultsMatchSelectedRows ==
    Idle =>
        LET v == get_results(states)
        IN  \A k \in ValidKeys :
               /\ \A i \in RowsWithKey(v, k) : RowTotals(v[i]) = FiveTotals(truth[k])
               /\ truth[k].count > 0 => RowsWithKey(v, k) # {}

\* No selected row carried a flag or status byte outside the alphabets.
OnlyValidKeysSelected ==
    \A k \in KeyDomain \ ValidKeys : truth[k].count = 0

\* C3 on the runs in which every selected row has a valid key.
ResultsMatchSelectedRowsOnValidInput ==
    OnlyValidKeysSelected => C3_ResultsMatchSelectedRows

KeyTable ==
    (<<ChA, ChF>> :> 0) @@ (<<ChA, ChO>> :> 1) @@ (<<ChN, ChF>> :> 2) @@
    (<<ChN, ChO>> :> 3) @@ (<<ChR, ChF>> :> 4) @@ (<<ChR, ChO>> :> 5)

\* C4: on the six valid keys hash_key takes the values 0..5 of the table,
\* hash_key(unhash_key(i)) = i for every i in 0..5, and
\* unhash_key(hash_key(flag, status)) = (flag, status) for every valid pair.
C4_HashBijection ==
    /\ (hk.stage = "index_round" /\ hk.idx \in Groups) => hk.out_idx = hk.idx
    /\ (hk.stage = "key_round" /\ <<hk.flag, hk.status>> \in ValidKeys)
          => <<hk.out_flag, hk.out_status>> = <<hk.flag, hk.status>>
    /\ (hk.stage \in {"hashed", "key_round"}
          /\ <<hk.flag, hk.status>> \in ValidKeys)
          => hk.out_idx = KeyTable[<<hk.flag, hk.status>>]

\* C4 witness: R/O has been hashed to 5 and unhashed again.
C4_Witness ==
    /\ hk.stage = "key_round"
    /\ hk.flag = ChR /\ hk.status = ChO
    /\ hk.out_idx = 5

\* C5: for every flag byte and every status byte hash_key yields an index
\* of a bank's six slots.
C5_HashInBounds ==
    hk.stage \in {"hashed", "key_round"} => hk.out_idx \in Groups

\* C5 witness: a pair with neither byte in its alphabet has been hashed.
C5_Witness ==
    /\ hk.stage = "hashed"
    /\ hk.flag \notin ValidFlags
    /\ hk.status \notin ValidStatuses
    /\ hk.out_idx \in Groups

\* The count of group g summed over the four banks.
MergedCount(g) ==
    states[0][g].count + states[1][g].count
        + states[2][g].count + states[3][g].count

\* C6: the slot of a valid key holds, over the four banks, only rows carrying
\* that key: a selected row with a byte outside the alphabets is counted in
\* no valid key's accumulator and in no valid key's result row.
C6_UnknownBytesNotMixed ==
    /\ \A k \in ValidKeys :
          MergedCount(hash_key(k[1], k[2])) = truth[k].count
    /\ \A i \in 1..Len(get_results(states)) :
          LET r == get_results(states)[i]
          IN  <<r.returnflag, r.linestatus>> \in ValidKeys
                 => r.count = truth[<<r.returnflag, r.linestatus>>].count

\* C7: a call whose mask and columns differ in length returns an error and
\* changes no accumulator.
C7_MismatchFailsFast ==
    [][(IsAggregateStep /\ Ragged(pending[1]))
          => (ret' = "Err" /\ states' = states)]_vars

\* A step of get_results: a Vec is returned.
IsGetResultsStep == results' # results /\ results' # <<>>

\* C8: get_results leaves the four banks as they are, and of two calls with
\* no aggregate_batch between them the second returns what the first did.
C8_GetResultsPure ==
    [][IsGetResultsStep =>
          /\ states' = states
          /\ (Len(results') = 2 => results'[1] = results'[2])]_vars

\* C8 witness: get_results has been called twice in a row on an aggregator
\* holding two groups or more.
C8_Witness ==
    /\ Len(results) = 2
    /\ Len(results[2]) >= 2
    /\ results[1] = results[2]

KeyBefore(a, b) ==
    \/ a.returnflag < b.returnflag
    \/ (a.returnflag = b.returnflag /\ a.linestatus < b.linestatus)

\* C9: in the Vec get_results returns every row stands before the next one
\* in (flag, status) order, strictly: ascending, and no key twice.
C9_ResultsStrictlyAscending ==
    Idle =>
        LET v == get_results(states)
        IN  /\ \A i \in 1..Len(v) : \A j \in 1..Len(v) :
                  i < j => KeyBefore(v[i], v[j])
            /\ results # <<>> => LastResults = v

\* C9 witness: A/F rows and R/O rows were selected and nothing else, and
\* get_results returned two rows, A/F then R/O.
C9_Witness ==
    /\ results # <<>>
    /\ Len(LastResults) = 2
    /\ <<LastResults[1].returnflag, LastResults[1].linestatus>> = <<ChA, ChF>>
    /\ <<LastResults[2].returnflag, LastResults[2].linestatus>> = <<ChR, ChO>>
    /\ truth[<<ChA, ChF>>].count > 0
    /\ truth[<<ChR, ChO>>].count > 0

\* C10: get_results returns one row for each group whose count over the four
\* banks is positive, none for a group whose count is zero, and the empty
\* Vec when no row was ever selected.
C10_OneRowPerNonEmptyGroup ==
    Idle =>
        LET v == get_results(states)
        IN  /\ \A g \in Groups :
                  Cardinality(RowsWithKey(v, unhash_key(g)))
                     = IF MergedCount(g) > 0 THEN 1 ELSE 0
            /\ Len(v) = Cardinality({g \in Groups : MergedCount(g) > 0})
            /\ (\A k \in KeyDomain : truth[k].count = 0) => v = <<>>

\* C10 witness: get_results has returned a row for a group with a single
\* row, while another group is empty.
C10_Witness ==
    /\ results # <<>>
    /\ \E g \in Groups : MergedCount(g) = 1
    /\ \E g \in Groups : MergedCount(g) = 0
    /\ Len(LastResults) >= 1

\* The fraction a is 0 when count is 0 and sum / count otherwise.
IsAverage(a, sum, count) ==
    IF count = 0 THEN a = <<0, 1>>
    ELSE a[2] > 0 /\ a[1] * count = sum * a[2]

AveragesOf(state) ==
    /\ IsAverage(avg_qty(state), state.sum_qty, state.count)
    /\ IsAverage(avg_price(state), state.sum_base_price, state.count)
    /\ IsAverage(avg_disc(state), state.sum_discount, state.count)

\* C11: in every accumulator state (each of the 24 slots and each merged
\* group) avg_qty, avg_price and avg_disc are 0 when count is 0 and
\* sum_qty / count, sum_base_price / count, sum_discount / count otherwise;
\* every row of get_results carries these averages of its merged group.
C11_AveragesAreSumOverCount ==
    Idle =>
        LET m == merged_states(states)
            v == get_results(states)
        IN  /\ \A b \in Banks, g \in Groups : AveragesOf(states[b][g])
            /\ \A g \in Groups : AveragesOf(m[g])
            /\ \A i \in 1..Len(v) :
                  \E g \in Groups :
                     /\ unhash_key(g) = <<v[i].returnflag, v[i].linestatus>>
                     /\ v[i].count = m[g].count
                     /\ IsAverage(v[i].avg_qty, m[g].sum_qty, m[g].count)
                     /\ IsAverage(v[i].avg_price, m[g].sum_base_price,
                                  m[g].count)
                     /\ IsAverage(v[i].avg_disc, m[g].sum_discount,
                                  m[g].count)

\* C11 witness: get_results has returned a row whose group holds several
\* rows from more than one bank and has a discount average above 0, while
\* another slot is still empty.
C11_Witness ==
    /\ results # <<>>
    /\ \E i \in 1..Len(LastResults) :
          /\ LastResults[i].count >= 2
          /\ LastResults[i].avg_disc[1] > 0
    /\ \E g \in Groups : states[0][g].count > 0 /\ states[1][g].count > 0
    /\ \E g \in Groups : MergedCount(g) = 0

\* A pass of the loop body of execute_tpch_q1 on an empty batch.
IsEmptyBatchPass == drv.pc = "loop" /\ drv'.last = "empty"

\* C12: aggregate_batch on a zero-length batch returns Ok and leaves every
\* accumulator field unchanged; a pass of the loop of execute_tpch_q1 on an
\* empty batch changes nothing and leaves the loop running: the run ends
\* only at the end of the sequence and fails only on an error item.
C12_EmptyBatchIsNoOp ==
    [][/\ (IsAggregateStep /\ Len(pending[1].mask) = 0)
             => (states' = states /\ ret' = "Ok")
       /\ IsEmptyBatchPass
             => /\ states' = states
                /\ results' = results
                /\ ret' = ret
                /\ drv'.pc = "loop"
       /\ drv'.pc = "done" => drv'.last = "end"
       /\ drv'.pc = "failed" => drv'.last = "error"]_vars

\* C12 witness: execute_tpch_q1 has returned rows after a run that met an
\* empty batch and aggregated two batches.
C12_Witness ==
    /\ drv.pc = "done"
    /\ drv.sawEmpty
    /\ drv.calls >= 2
    /\ results # <<>>
    /\ Len(LastResults) >= 1

\* The other case of C12: a caller has passed a zero-length batch to an
\* aggregator that holds rows.
ZeroLengthCallMade ==
    /\ lastCall.made
    /\ lastCall.len = 0
    /\ ret = "Ok"
    /\ \E g \in Groups : MergedCount(g) > 0

SumFields ==
    {"sum_qty", "sum_base_price", "sum_disc_price", "sum_charge",
     "sum_discount"}

AllZero(st) ==
    \A b \in Banks, g \in Groups :
       /\ st[b][g].count = 0
       /\ \A f \in SumFields : st[b][g][f] = 0

\* No field of any slot is smaller in st2 than in st1.
NothingDecreases(st1, st2) ==
    \A b \in Banks, g \in Groups :
       /\ st2[b][g].count >= st1[b][g].count
       /\ \A f \in SumFields : st2[b][g][f] >= st1[b][g][f]

ResultsReturned ==
    /\ results # <<>>
    /\ Idle
    /\ drv.pc \in {"off", "done"}

\* C14: however the row sequence was cut into batches (by a direct caller or
\* by the loop of execute_tpch_q1, which drops empty and fully masked
\* batches), the rows returned by get_results carry, group by group, the
\* totals of the one serial accumulator that takes the same rows one after
\* the other with no batch boundaries.
C14_TotalsIndependentOfBatching ==
    ResultsReturned =>
        LET v == LastResults
        IN  /\ \A g \in Groups :
                  IF serial[g].count = 0
                  THEN RowsWithKey(v, unhash_key(g)) = {}
                  ELSE \E i \in 1..Len(v) :
                          /\ RowsWithKey(v, unhash_key(g)) = {i}
                          /\ RowTotals(v[i]) = FiveTotals(serial[g])
            /\ \A i \in 1..Len(v) :
                  \E g \in Groups :
                     unhash_key(g) = <<v[i].returnflag, v[i].linestatus>>

\* C14 witness: execute_tpch_q1 has returned rows after two aggregate_batch
\* calls of different lengths, one of four rows or more and one of fewer
\* than four, with a group that has rows in bank 0 and in another bank.
C14_Witness ==
    /\ drv.pc = "done"
    /\ drv.calls >= 2
    /\ Len(LastResults) >= 2
    /\ \E g \in Groups : states[0][g].count >= 2 /\ states[3][g].count >= 1

\* derived_price and derived_charge of (p, d, t): p * (1 - d) in hundredths
\* and p * (1 - d) * (1 + t) in ten-thousandths.
DerivedValues(p, d, t) ==
    <<p * Hundred - p * d,
      (p * Hundred - p * d) * Hundred + (p * Hundred - p * d) * t>>

\* C15: for every (price, discount, tax) the derived values computed in each
\* of the four unrolled lanes, in the remainder loop and by
\* evaluate_expressions are the same two values price * (1 - discount) and
\* derived_price * (1 + tax); price 100, discount 0.10, tax 0.05 gives
\* 90.00 and 94.5000.
C15_DerivedValuesAgree ==
    LET want == DerivedValues(ex.price, ex.discount, ex.tax)
    IN  /\ ex.stage \in {"lanes", "remainder", "batch"}
              => \A k \in 1..NumBanks : ex.lanes[k] = want
        /\ ex.stage \in {"remainder", "batch"} => ex.remainder = want
        /\ ex.stage = "batch"
              => /\ ex.batch[1] = want
                 /\ ex.batch[2] = <<9000, 945000>>
        /\ (ex.stage = "batch" /\ ex.price = 100 /\ ex.discount = 10
                /\ ex.tax = 5)
              => /\ \A k \in 1..NumBanks : ex.lanes[k] = <<9000, 945000>>
                 /\ ex.remainder = <<9000, 945000>>

\* C15 witness: all three places have computed the derived values of a row
\* with a discount and a tax above 0.
C15_Witness ==
    /\ ex.stage = "batch"
    /\ ex.price = 100 /\ ex.discount = 10 /\ ex.tax = 5
    /\ ex.lanes[4] = <<9000, 945000>>
    /\ ex.batch[1] = ex.remainder

\* The positions of the date column whose date is not after the threshold.
OnOrBefore(column) == {i \in 1..Len(column) : ~(column[i] > 10471)}

\* C16: for a date column of any length, 0 included, the filter mask has the
\* column's length and mask[i] is true exactly when column[i] <= 10471 (a
\* date equal to the threshold is selected); apply_date_filter keeps exactly
\* the rows at those positions, in their order, and count_matching_rows
\* returns their number.
C16_FilterSelectsOnOrBeforeThreshold ==
    LET S == OnOrBefore(flt.column)
    IN  /\ FILTER_DATE_DAYS = 10471
        /\ flt.stage \in {"filtered", "counted"}
              => /\ Len(flt.mask) = Len(flt.column)
                 /\ \A i \in 1..Len(flt.column) : flt.mask[i] <=> i \in S
                 /\ Len(flt.kept) = Cardinality(S)
                 /\ {flt.kept[j].id : j \in 1..Len(flt.kept)} = S
                 /\ \A j \in 1..Len(flt.kept) :
                       flt.kept[j].shipdate = flt.column[flt.kept[j].id]
                 /\ \A j, k \in 1..Len(flt.kept) :
                       j < k => flt.kept[j].id < flt.kept[k].id
        /\ flt.stage = "counted" => flt.count = Cardinality(S)

\* C16 witness: a batch whose first row is after the threshold, followed by
\* a row on the threshold and a row before it, has been filtered and
\* counted.
C16_Witness ==
    /\ flt.stage = "counted"
    /\ Len(flt.column) >= 3
    /\ flt.column[1] = 10472 /\ flt.column[2] = 10471 /\ flt.column[3] = 10470
    /\ flt.count = 2
    /\ flt.kept[1].id = 2

\* C16 witness of the empty column: filtered and counted.
EmptyColumnFiltered ==
    /\ flt.stage = "counted"
    /\ flt.column = <<>>
    /\ flt.mask = <<>> /\ flt.kept = <<>> /\ flt.count = 0

\* The slot <<bank, group>> the claim gives to row i (1-based) of the batch.
TargetSlot(batch, i) ==
    LET len == Len(batch.mask)
        group == hash_key(batch.returnflag[i][1], batch.linestatus[i][1])
    IN  IF i - 1 < 4 * (len \div 4) THEN <<(i - 1) % 4, group>>
        ELSE <<0, group>>

SelectedRows(batch) == {i \in 1..Len(batch.mask) : batch.mask[i]}

ChangedSlots(st1, st2) ==
    {slot \in Banks \X Groups : st2[slot[1]][slot[2]] # st1[slot[1]][slot[2]]}

\* C17: in aggregate_batch every selected row i changes one slot only, slot
\* hash_key(flag_i, status_i) of bank i mod 4 when i < 4 * floor(len / 4)
\* and of bank 0 when i is a leftover row: the slots a call changes are
\* exactly the targets of its selected rows, each gaining one count per
\* selected row that targets it, and a call with one selected row changes
\* one slot and leaves the other 23 as they were.
C17_RowChangesOnlyItsSlot ==
    [][IsAggregateStep =>
          LET batch == pending[1]
              S == SelectedRows(batch)
          IN  /\ ChangedSlots(states, states')
                    = {TargetSlot(batch, i) : i \in S}
              /\ \A slot \in Banks \X Groups :
                    states'[slot[1]][slot[2]].count
                       = states[slot[1]][slot[2]].count
                         + Cardinality({i \in S : TargetSlot(batch, i) = slot})
              /\ Cardinality(S) = 1
                    => Cardinality((Banks \X Groups)
                                     \ ChangedSlots(states, states')) = 23]_vars

BankCount(b) == SumOver([g \in Groups |-> states[b][g].count], Groups)

\* C17 witness: a batch of five rows, all selected, has been aggregated on a
\* fresh aggregator: rows 0 and 4 are in bank 0, rows 1, 2, 3 in banks 1, 2,
\* 3.
C17_Witness ==
    /\ lastCall.made
    /\ lastCall.len = 5 /\ lastCall.selected = 5
    /\ BankCount(0) = 2
    /\ \A b \in 1..3 : BankCount(b) = 1

\* C18: whenever the fast path is selected, the byte read for row i is the
\* first byte of row i's string value, and so the group chosen for the row
\* is the group the slow path chooses; for every column of non-empty values,
\* whatever their lengths and whatever the column's starting offset.
C18_FastPathReadsFirstByte ==
    (sv.stage = "read" /\ sv.use_fast_path) =>
        \A i \in 1..Len(sv.strings) :
           /\ sv.fast[i] = sv.strings[i][1]
           /\ hash_key(sv.fast[i], ChF) = hash_key(sv.slow[i], ChF)

\* The same for the columns the fast path is written for: one byte per
\* value and a value buffer that starts with the column's first value.
FastPathReadsFirstByteOfOneByteColumns ==
    (/\ sv.stage = "read"
     /\ sv.use_fast_path
     /\ sv.lead = <<>>
     /\ \A i \in 1..Len(sv.strings) : Len(sv.strings[i]) = 1) =>
        \A i \in 1..Len(sv.strings) :
           /\ sv.fast[i] = sv.strings[i][1]
           /\ sv.fast[i] = sv.slow[i]

\* The number of rows with a true mask bit in the batches aggregated so far.
SelectedSoFar == SumOver([k \in KeyDomain |-> truth[k].count], KeyDomain)

RowCounts(v) == SumOver([i \in 1..Len(v) |-> v[i].count], 1..Len(v))

\* C19: in every state reached from a fresh aggregator by aggregate_batch
\* calls, the counts of the 4 x 6 slots add up to the number of rows with a
\* true mask bit in all batches aggregated so far, and so do the count
\* fields of the rows get_results returns.
C19_CountsAddUpToSelectedRows ==
    Idle =>
        /\ SumOver([b \in Banks |-> BankCount(b)], Banks) = SelectedSoFar
        /\ RowCounts(get_results(states)) = SelectedSoFar

\* C19 witness: after batches with selected and masked-out rows, the counts
\* of the rows returned add up to the three or more rows selected, spread
\* over several banks and groups.
C19_Witness ==
    /\ results # <<>>
    /\ SelectedSoFar >= 3
    /\ SelectedSoFar < used
    /\ RowCounts(LastResults) = SelectedSoFar
    /\ Len(LastResults) >= 2
    /\ BankCount(1) >= 1

=============================================================================
